---- MODULE Spec2Model ----
(***************************************************************************)
(* A model of the evaluation subsystem of disentangling-vae                *)
(* (src/disvae/evaluate.py): Evaluator.compute_metrics and the procedures  *)
(* it calls (_disentanglement_metric, _images_from_data_gen,               *)
(* _estimate_latent_entropies) and Evaluator.compute_losses.               *)
(*                                                                         *)
(* Every procedure is a pc-driven state machine.  Python exceptions are    *)
(* the value of an "exception" variable and end the run they occur in.     *)
(* Numeric tensors are abstracted to their shapes, to the identity of the  *)
(* elements they hold and to integer (or numerator/denominator) values.    *)
(***************************************************************************)
EXTENDS Integers, Sequences, FiniteSets, TLC

VARIABLES
    \* ---- Evaluator.compute_metrics / Evaluator._disentanglement_metric
    pc,              \* position in compute_metrics / _disentanglement_metric
    caller,          \* "compute_metrics" or "direct": who called _disentanglement_metric
    use_wandb,       \* self.use_wandb
    dataset_attrs,   \* attributes the dataset exposes, among lat_sizes, lat_names, imgs
    lat_sizes,       \* dataset.lat_sizes (cardinality of every factor)
    method_names,    \* the method_names argument
    dataset_size,    \* the dataset_size argument
    n_epochs,        \* the n_epochs argument
    i_method,        \* index of the for loop of line 190 (1-based)
    methods,         \* keys of the dict "methods", in insertion order
    imgs_pca_bound,  \* whether the local imgs_pca has been assigned
    imgs_pca_len,    \* len(imgs_pca) when bound
    ica_idx_high,    \* the exclusive upper end of the range ICA's idx is drawn from (0: not drawn)
    fitted,          \* baselines whose fit() has completed
    n_generated,     \* number of calls of _compute_z_b_diff_y (paired-sample records)
    data_train,      \* method -> [X |-> rows of difference vectors, Y |-> labels]
    data_test,       \* the same for the test set
    clf_mode,        \* classifier: "none" (not built), "train" or "eval"
    clf_weights,     \* classifier weights: "none", "fresh", "trained", "reset"
    clf_steps,       \* optimizer steps taken since construction
    m_idx,           \* index into methods of the loop of line 258 (1-based)
    epoch,           \* e of the loop of line 260
    test_acc,        \* keys of test_acc
    exception,       \* "" or the exception that ended the run
    wandb_calls,     \* calls made to the tracking service
    stages_done,     \* stages of compute_metrics that completed
    metrics,         \* keys of the returned metrics record ({} before the return)
    \* ---- Evaluator.compute_losses
    l_pc,            \* position in compute_losses
    loader,          \* the batches the data loader yields: the values loss_f stores for each
    multi_optimizer, \* loss_f raises ValueError and call_optimize is used (line 123)
    storer,          \* loss name -> list of the stored per-batch values
    n_applied,       \* batches the loss function has been applied to
    l_result,        \* "pending", or what compute_losses returned: "None" or "dict"
    losses,          \* the returned dict: loss name -> [num, den], the value num / den
    \* ---- the mixed-radix index of Evaluator._images_from_data_gen, on one tuple
    r_pc,            \* "start", "bases" (latents_bases computed), "encoded"
    r_lat_sizes,     \* lat_sizes
    r_tuple,         \* one factor-value tuple
    r_bases,         \* latents_bases
    r_index,         \* the index np.dot gives the tuple
    \* ---- Evaluator._images_from_data_gen
    g_pc,            \* position in _images_from_data_gen
    g_lat_sizes,     \* lat_sizes
    sample_size,     \* the sample_size argument
    y,               \* the factor kept fixed (0-based, as in the code)
    y_lat,           \* its sample_size shared values
    g_i,             \* i of the loop over the factors (line 348)
    samples1,        \* rows of factor values of set 1
    samples2,        \* rows of factor values of set 2
    latent_indices1, \* image index of every row of set 1
    latent_indices2, \* image index of every row of set 2
    g_returned,      \* the returned label (<<>> before the return, <<y>> after)
    \* ---- Evaluator._estimate_latent_entropies
    e_pc,            \* position in _estimate_latent_entropies
    len_dataset,     \* rows of samples_zCx: the examples available
    latent_dim,      \* columns of samples_zCx
    n_samples,       \* the n_samples argument: the pivots asked for
    mini_batch_size, \* mini_batch_size
    samples_x,       \* the examples selected as pivots (0-based), in order
    pivots,          \* samples_zCx after line 473: [a][b] is <<example, coordinate>>
    e_k,             \* k of the minibatch loop (line 481)
    visited,         \* the pivot columns (0-based) accumulated into H_z, in order
    H_divisor,       \* what H_z was divided by (0 before line 499)
    e_exception,     \* "" or the exception that ended the call
    \* ---- Evaluator._axis_aligned_metric
    a_pc,            \* position in lines 172-177 and _axis_aligned_metric
    mut_info,        \* mut_info of line 172: [factor][latent dimension]
    sorted_mut_info, \* the table of line 173
    numerator,       \* numerator of line 389, one value per factor
    aam_k,           \* aam_k, one float per factor
    aam,             \* the returned mean (NoFloat before line 392)
    \* ---- Evaluator._compute_q_zCx
    q_pc,            \* position in _compute_q_zCx
    q_len_dataset,   \* len(dataloader.dataset)
    q_loader,        \* the batch sizes the loader yields, in order
    q_i,             \* batches consumed so far
    q_n,             \* n of line 424
    q_zCx,           \* the table of line 422: row r is at position r + 1
    q_written,       \* how many times each row has been assigned
    q_exception,     \* "" or the exception that ended the call
    \* ---- Evaluator._estimate_H_zCv
    h_pc,            \* position in _estimate_H_zCv
    h_lat_sizes,     \* lat_sizes
    i_fac_var,       \* i_fac_var of line 508 (0-based)
    h_val,           \* i of line 510
    samples_zxCv,    \* the slice of line 514: dataset indices, in order
    h_handed,        \* the slices handed to the estimator: <<factor, value, examples>>
    H_zCv,           \* per factor, the terms added: <<value, weight>>
    h_exception,     \* "" or the exception that ended the call
    \* ---- Evaluator.__call__
    c_pc,            \* position in __call__
    is_metrics,      \* the is_metrics argument
    is_losses,       \* the is_losses argument
    len_loader,      \* len(data_loader): the batches it yields
    model_training,  \* self.model.training
    mode_found,      \* self.model.training when __call__ was entered
    is_still_training,\* is_still_training of line 83
    call_locals,     \* the local names metric, metrics, losses that are bound, with their values
    saved_files,     \* the files written by save_metadata
    returned,        \* <<>> before the return, then the pair returned
    c_exception,     \* "" or the exception that ended the call
    \* ---- Trainer.__call__ (training.py)
    t_pc,            \* position in Trainer.__call__
    wandb_log,       \* the wandb_log argument
    t_epochs,        \* the epochs argument
    t_len_loader,    \* len(data_loader): the batches of an epoch
    t_steps,         \* self.steps: <<>> for None, <<n>> for the number n
    t_training,      \* self.model.training
    t_epoch,         \* epoch of line 108
    t_step,          \* step of _train_epoch's loop
    train_evaluator, \* whether train_evaluator is bound
    t_evaluations,   \* the evaluator's methods run so far, with the model's mode
    t_returned,      \* whether __call__ has returned
    t_exception      \* "" or the exception that ended the call

mvars == <<pc, caller, use_wandb, dataset_attrs, lat_sizes, method_names,
           dataset_size, n_epochs, i_method, methods, imgs_pca_bound,
           imgs_pca_len, ica_idx_high, fitted, n_generated, data_train,
           data_test, clf_mode, clf_weights, clf_steps, m_idx, epoch,
           test_acc, exception, wandb_calls, stages_done, metrics>>

lvars == <<l_pc, loader, multi_optimizer, storer, n_applied, l_result, losses>>

rvars == <<r_pc, r_lat_sizes, r_tuple, r_bases, r_index>>

gvars == <<g_pc, g_lat_sizes, sample_size, y, y_lat, g_i, samples1, samples2,
           latent_indices1, latent_indices2, g_returned>>

evars == <<e_pc, len_dataset, latent_dim, n_samples, mini_batch_size,
           samples_x, pivots, e_k, visited, H_divisor, e_exception>>

avars == <<a_pc, mut_info, sorted_mut_info, numerator, aam_k, aam>>

qvars == <<q_pc, q_len_dataset, q_loader, q_i, q_n, q_zCx, q_written,
            q_exception>>

hvars == <<h_pc, h_lat_sizes, i_fac_var, h_val, samples_zxCv, h_handed,
            H_zCv, h_exception>>

cvars == <<c_pc, is_metrics, is_losses, len_loader, model_training,
            mode_found, is_still_training, call_locals, saved_files,
            returned, c_exception>>

tvars == <<t_pc, wandb_log, t_epochs, t_len_loader, t_steps, t_training,
            t_epoch, t_step, train_evaluator, t_evaluations, t_returned,
            t_exception>>

vars == <<mvars, lvars, rvars, gvars, evars, avars, qvars, hvars, cvars, tvars>>

\* what the actions of compute_metrics and _disentanglement_metric leave alone
NotMetrics == <<lvars, rvars, gvars, evars, avars, qvars, hvars, cvars, tvars>>

\* what the actions of compute_losses leave alone
NotLosses == <<mvars, rvars, gvars, evars, avars, qvars, hvars, cvars, tvars>>

\* what the actions on the mixed-radix index leave alone
NotRadix == <<mvars, lvars, gvars, evars, avars, qvars, hvars, cvars, tvars>>

\* what the actions of _images_from_data_gen leave alone
NotGen == <<mvars, lvars, rvars, evars, avars, qvars, hvars, cvars, tvars>>

\* what the actions of _estimate_latent_entropies leave alone
NotEntropy == <<mvars, lvars, rvars, gvars, avars, qvars, hvars, cvars, tvars>>

\* what the actions of _axis_aligned_metric leave alone
NotAam == <<mvars, lvars, rvars, gvars, evars, qvars, hvars, cvars, tvars>>

\* what the actions of _compute_q_zCx leave alone
NotQzCx == <<mvars, lvars, rvars, gvars, evars, avars, hvars, cvars, tvars>>

\* what the actions of _estimate_H_zCv leave alone
NotHzCv == <<mvars, lvars, rvars, gvars, evars, avars, qvars, cvars, tvars>>

\* what the actions of Evaluator.__call__ leave alone
NotCall == <<mvars, lvars, rvars, gvars, evars, avars, qvars, hvars, tvars>>

\* what the actions of Trainer.__call__ leave alone
NotTrainer == <<mvars, lvars, rvars, gvars, evars, avars, qvars, hvars, cvars>>

(***************************************************************************)
(* Bounds of the model.  The sizes the code hard-codes (5000 PCA rows,     *)
(* 10000 pivots, 1500 records, 150 epochs) are far beyond exhaustive       *)
(* search; the model keeps their role and scales them down.                *)
(***************************************************************************)
MaxLatSize == 2       \* largest cardinality of a factor
MaxMethods == 3       \* longest method list of a direct call
MaxDatasetSize == 5   \* largest dataset_size
MaxEpochs == 2        \* largest n_epochs
PCA_size == 3         \* stands for size = 5000 of line 198
N_SAMPLES == 2        \* stands for n_samples = 10000 of line 438

RECURSIVE Prod(_)
Prod(s) == IF s = <<>> THEN 1 ELSE Head(s) * Prod(Tail(s))

\* len(imgs): the dataset is a dense factorial grid, one image per combination
NumImgs(ls) == Prod(ls)

RequiredAttrs == {"lat_sizes", "lat_names", "imgs"}
KnownMethods == {"VAE", "PCA", "ICA"}
MethodNames == KnownMethods \cup {"TSNE"}
LatSizesSet == [1..2 -> 1..MaxLatSize]
MethodLists == UNION {[1..n -> MethodNames] : n \in 1..MaxMethods}

\* the method list compute_metrics passes at line 148
CM_method_names == <<"VAE", "PCA", "ICA">>

\* local names of compute_metrics that an assignment binds (line 150, which
\* would bind non_linear_accuracies, is commented out)
CM_Locals == {"lat_sizes", "lat_names", "lat_imgs", "accuracies",
              "samples_zCx", "params_zCx", "len_dataset", "latent_dim",
              "H_z", "H_zCv", "mut_info", "sorted_mut_info",
              "metric_helpers", "mig", "aam", "metrics"}

\* names the dict display of line 179 reads
CM_MetricsReads == {"accuracies", "non_linear_accuracies", "mig", "aam"}

\* int(dataset_size * 0.2) of line 240
TestShare(ds) == (ds * 2) \div 10

\* torch's view(latent_dim, n_samples) of line 473 on the min(N, n_samples)
\* selected rows: the element counts must agree
ViewOk(N, n) == (IF N < n THEN N ELSE n) = n

EmptyData == [m \in {} |-> [X |-> 0, Y |-> 0]]

\* A call of compute_metrics, or a direct call of _disentanglement_metric
\* with any method list.  In a call of compute_metrics dataset_size and
\* n_epochs are the arguments of line 148 (1500 and 150), scaled down.
MetricsInit ==
    /\ caller \in {"compute_metrics", "direct"}
    /\ use_wandb \in BOOLEAN
    /\ lat_sizes \in LatSizesSet
    /\ dataset_size \in 1..MaxDatasetSize
    /\ IF caller = "compute_metrics"
         THEN /\ pc = "compute_metrics"
              /\ n_epochs \in 1..MaxEpochs
              /\ dataset_attrs \in SUBSET RequiredAttrs
              /\ method_names = <<>>
         ELSE /\ pc = "fit_methods"
              /\ dataset_attrs = RequiredAttrs
              /\ n_epochs \in 0..MaxEpochs
              /\ method_names \in MethodLists
    /\ i_method = 1
    /\ methods = <<>>
    /\ imgs_pca_bound = FALSE
    /\ imgs_pca_len = 0
    /\ ica_idx_high = 0
    /\ fitted = {}
    /\ n_generated = 0
    /\ data_train = EmptyData
    /\ data_test = EmptyData
    /\ clf_mode = "none"
    /\ clf_weights = "none"
    /\ clf_steps = 0
    /\ m_idx = 1
    /\ epoch = 0
    /\ test_acc = {}
    /\ exception = ""
    /\ wandb_calls = {}
    /\ stages_done = {}
    /\ metrics = {}

\* methods[key] = value on a dict that keeps insertion order
DictSet(keys, k) ==
    IF \E j \in 1..Len(keys) : keys[j] = k THEN keys ELSE Append(keys, k)

Keys(keys) == {keys[j] : j \in 1..Len(keys)}

Raise(e) ==
    /\ exception' = e
    /\ pc' = "raised"

\* lines 140-145 with only the first attribute read guarded
HasFactorMetadata_OnlySizes(attrs) == "lat_sizes" \in attrs

\* lines 140-145: the three attribute reads inside try; any AttributeError
\* becomes the ValueError
HasFactorMetadata(attrs) == RequiredAttrs \subseteq attrs

\* the calls reach the tracking service whatever the flag says
Tracked_Always(flag, calls, api) == calls \cup api

\* "if self.use_wandb:" around calls of the tracking service: api is the set
\* of entry points (config, log, save) the guarded statements call
Tracked(flag, calls, api) == IF flag THEN calls \cup api ELSE calls

(***************************************************************************)
(* Evaluator.compute_metrics, lines 136-148: the tracking configuration,   *)
(* the read of the dataset's factor metadata, and the call of              *)
(* _disentanglement_metric(["VAE", "PCA", "ICA"], ...).                    *)
(***************************************************************************)
CM_StartWith(flag, calls_next) ==
    /\ pc = "compute_metrics"
    /\ calls_next = Tracked(flag, wandb_calls, {"config"})
    /\ IF HasFactorMetadata(dataset_attrs)
         THEN /\ method_names' = CM_method_names
              /\ pc' = "fit_methods"
              /\ UNCHANGED exception
         ELSE /\ Raise("ValueError: dataset has no known factors")
              /\ UNCHANGED method_names
    /\ UNCHANGED <<NotMetrics, caller, use_wandb, dataset_attrs, lat_sizes, dataset_size,
                   n_epochs, i_method, methods, imgs_pca_bound, imgs_pca_len,
                   ica_idx_high, fitted, n_generated, data_train, data_test,
                   clf_mode, clf_weights, clf_steps, m_idx, epoch, test_acc,
                   stages_done, metrics>>

\* compute_metrics as the evaluator runs it: self.use_wandb decides, wandb_calls records
CM_Start == CM_StartWith(use_wandb, wandb_calls')

\* the for loop of line 190 moves on, or ends at the last name
FitLoopAdvance ==
    /\ i_method' = i_method + 1
    /\ pc' = IF i_method = Len(method_names) THEN "generate" ELSE "fit_methods"
    /\ UNCHANGED exception

(***************************************************************************)
(* _disentanglement_metric, lines 190-221: one iteration of the loop       *)
(* that fits the requested representations.                                *)
(***************************************************************************)
FitFrame ==
    UNCHANGED <<NotMetrics, caller, use_wandb, dataset_attrs, lat_sizes, method_names,
                dataset_size, n_epochs, n_generated, data_train, data_test,
                clf_mode, clf_weights, clf_steps, m_idx, epoch, test_acc,
                stages_done, metrics>>

DM_FitVAE ==
    /\ pc = "fit_methods"
    /\ method_names[i_method] = "VAE"
    /\ methods' = DictSet(methods, "VAE")
    /\ FitLoopAdvance
    /\ UNCHANGED <<imgs_pca_bound, imgs_pca_len, ica_idx_high, fitted, wandb_calls>>
    /\ FitFrame

\* lines 194-205: idx is drawn from [0, len(imgs_pca)) with imgs_pca the
\* full flattened array, and imgs_pca is rebound to the size-row subsample
DM_FitPCAWith(flag, calls_next) ==
    /\ pc = "fit_methods"
    /\ method_names[i_method] = "PCA"
    /\ calls_next = Tracked(flag, wandb_calls, {"config"})
    /\ imgs_pca_bound' = TRUE
    /\ imgs_pca_len' = PCA_size
    /\ fitted' = fitted \cup {"PCA"}
    /\ methods' = DictSet(methods, "PCA")
    /\ FitLoopAdvance
    /\ UNCHANGED ica_idx_high
    /\ FitFrame

\* the PCA branch as the evaluator runs it: self.use_wandb decides, wandb_calls records
DM_FitPCA == DM_FitPCAWith(use_wandb, wandb_calls')

\* lines 207-218: idx is drawn from [0, len(imgs_pca)), imgs_pca being the
\* local the PCA branch binds.  The indices drawn at line 214 are abstracted
\* to their maximum idx_max: imgs_ica[idx, :] raises IndexError when idx_max
\* is not a row of the full array.
DM_FitICAWith(flag, calls_next) ==
    /\ pc = "fit_methods"
    /\ method_names[i_method] = "ICA"
    /\ calls_next = Tracked(flag, wandb_calls, {"config"})
    /\ IF ~imgs_pca_bound
         THEN /\ Raise("UnboundLocalError: imgs_pca")
              /\ UNCHANGED <<ica_idx_high, fitted, methods, i_method>>
         ELSE /\ ica_idx_high' = imgs_pca_len
              /\ \E idx_max \in 0..(imgs_pca_len - 1) :
                   IF idx_max < NumImgs(lat_sizes)
                     THEN /\ fitted' = fitted \cup {"ICA"}
                          /\ methods' = DictSet(methods, "ICA")
                          /\ FitLoopAdvance
                     ELSE /\ Raise("IndexError: imgs_ica[idx]")
                          /\ UNCHANGED <<fitted, methods, i_method>>
    /\ UNCHANGED <<imgs_pca_bound, imgs_pca_len>>
    /\ FitFrame

\* the ICA branch as the evaluator runs it: self.use_wandb decides, wandb_calls records
DM_FitICA == DM_FitICAWith(use_wandb, wandb_calls')

\* lines 220-221
DM_FitUnknown ==
    /\ pc = "fit_methods"
    /\ method_names[i_method] \notin KnownMethods
    /\ Raise("ValueError: Unknown method")
    /\ UNCHANGED <<i_method, methods, imgs_pca_bound, imgs_pca_len,
                   ica_idx_high, fitted, wandb_calls>>
    /\ FitFrame

(***************************************************************************)
(* _disentanglement_metric, lines 223-246: the two initial records of      *)
(* lines 223-224 and the loop that appends to the training and test sets.  *)
(* GenLoop runs the loop of line 233 from iteration i; st counts the rows  *)
(* of each set and the calls of _compute_z_b_diff_y.                       *)
(***************************************************************************)
RECURSIVE GenLoop(_, _, _)
GenLoop(i, ds, st) ==
    IF i >= ds
      THEN st
      ELSE GenLoop(i + 1, ds,
                   IF i <= TestShare(ds)
                     THEN [train |-> st.train + 1, test |-> st.test + 1,
                           calls |-> st.calls + 2]
                     ELSE [train |-> st.train + 1, test |-> st.test,
                           calls |-> st.calls + 1])

DM_GenerateData ==
    /\ pc = "generate"
    /\ LET st == GenLoop(0, dataset_size, [train |-> 1, test |-> 1, calls |-> 2])
       IN /\ data_train' = [m \in Keys(methods) |-> [X |-> st.train, Y |-> st.train]]
          /\ data_test' = [m \in Keys(methods) |-> [X |-> st.test, Y |-> st.test]]
          /\ n_generated' = st.calls
    /\ pc' = "classifier"
    /\ UNCHANGED <<NotMetrics, caller, use_wandb, dataset_attrs, lat_sizes, method_names,
                   dataset_size, n_epochs, i_method, methods, imgs_pca_bound,
                   imgs_pca_len, ica_idx_high, fitted, clf_mode, clf_weights,
                   clf_steps, m_idx, epoch, test_acc, exception, wandb_calls,
                   stages_done, metrics>>

(***************************************************************************)
(* _disentanglement_metric, lines 248-295: the probe classifier.           *)
(***************************************************************************)
ClfFrame ==
    UNCHANGED <<NotMetrics, caller, use_wandb, dataset_attrs, lat_sizes, method_names,
                dataset_size, n_epochs, i_method, methods, imgs_pca_bound,
                imgs_pca_len, ica_idx_high, fitted, n_generated, data_train,
                data_test, wandb_calls, stages_done, metrics>>

\* lines 248-257: Classifier(...), model.train(), the optimizer, test_acc = {}
DM_CreateClassifier ==
    /\ pc = "classifier"
    /\ clf_mode' = "train"
    /\ clf_weights' = "fresh"
    /\ clf_steps' = 0
    /\ m_idx' = 1
    /\ epoch' = 0
    /\ test_acc' = {}
    /\ pc' = "epochs"
    /\ UNCHANGED exception
    /\ ClfFrame

\* lines 260-279: one epoch, one optimizer step
DM_TrainEpoch ==
    /\ pc = "epochs"
    /\ epoch < n_epochs
    /\ clf_weights' = "trained"
    /\ clf_steps' = clf_steps + 1
    /\ epoch' = epoch + 1
    /\ UNCHANGED <<pc, clf_mode, m_idx, test_acc, exception>>
    /\ ClfFrame

\* lines 281-291: model.eval() and the accuracies.  X_train and X_test are
\* bound in the epoch loop only: with n_epochs = 0 line 284 reads an
\* unbound local.
DM_Evaluate ==
    /\ pc = "epochs"
    /\ epoch = n_epochs
    /\ clf_mode' = "eval"
    /\ IF n_epochs = 0
         THEN /\ Raise("UnboundLocalError: X_train")
              /\ UNCHANGED test_acc
         ELSE /\ test_acc' = test_acc \cup {methods[m_idx]}
              /\ pc' = "reset"
              /\ UNCHANGED exception
    /\ UNCHANGED <<clf_weights, clf_steps, m_idx, epoch>>
    /\ ClfFrame

\* line 293, and the for loop of line 258 moving on to the next method
DM_WeightReset ==
    /\ pc = "reset"
    /\ clf_weights' = "reset"
    /\ IF m_idx < Len(methods)
         THEN /\ m_idx' = m_idx + 1
              /\ epoch' = 0
              /\ pc' = "epochs"
         ELSE /\ pc' = "return_acc"
              /\ UNCHANGED <<m_idx, epoch>>
    /\ UNCHANGED <<clf_mode, clf_steps, test_acc, exception>>
    /\ ClfFrame

\* line 295
DM_Return ==
    /\ pc = "return_acc"
    /\ pc' = IF caller = "compute_metrics" THEN "log_accuracies" ELSE "done"
    /\ UNCHANGED <<clf_mode, clf_weights, clf_steps, m_idx, epoch, test_acc,
                   exception>>
    /\ ClfFrame

(***************************************************************************)
(* Evaluator.compute_metrics, lines 151-182.                               *)
(***************************************************************************)
CMFrame ==
    UNCHANGED <<NotMetrics, caller, use_wandb, dataset_attrs, lat_sizes, method_names,
                dataset_size, n_epochs, i_method, methods, imgs_pca_bound,
                imgs_pca_len, ica_idx_high, fitted, n_generated, data_train,
                data_test, clf_mode, clf_weights, clf_steps, m_idx, epoch,
                test_acc>>

\* lines 151-153
CM_LogAccuraciesWith(flag, calls_next) ==
    /\ pc = "log_accuracies"
    /\ calls_next = Tracked(flag, wandb_calls, {"log", "save"})
    /\ pc' = "q_zCx"
    /\ UNCHANGED <<exception, stages_done, metrics>>
    /\ CMFrame

\* lines 151-153 as the evaluator runs them: self.use_wandb decides, wandb_calls records
CM_LogAccuracies == CM_LogAccuraciesWith(use_wandb, wandb_calls')

\* lines 155-157
CM_ComputeQzCx ==
    /\ pc = "q_zCx"
    /\ stages_done' = stages_done \cup {"q_zCx"}
    /\ pc' = "H_z"
    /\ UNCHANGED <<exception, wandb_calls, metrics>>
    /\ CMFrame

\* lines 159-161: _estimate_latent_entropies on the whole table, with the
\* default n_samples
CM_MarginalEntropy ==
    /\ pc = "H_z"
    /\ IF ViewOk(NumImgs(lat_sizes), N_SAMPLES)
         THEN /\ stages_done' = stages_done \cup {"H_z"}
              /\ pc' = "H_zCv"
              /\ UNCHANGED exception
         ELSE /\ Raise("RuntimeError: view")
              /\ UNCHANGED stages_done
    /\ UNCHANGED <<wandb_calls, metrics>>
    /\ CMFrame

\* lines 163-166: _estimate_H_zCv calls _estimate_latent_entropies on every
\* slice of len_dataset // lat_size examples (lines 514-520)
CM_ConditionalEntropy ==
    /\ pc = "H_zCv"
    /\ IF \A k \in 1..Len(lat_sizes) :
            ViewOk(NumImgs(lat_sizes) \div lat_sizes[k], N_SAMPLES)
         THEN /\ stages_done' = stages_done \cup {"H_zCv"}
              /\ pc' = "scores"
              /\ UNCHANGED exception
         ELSE /\ Raise("RuntimeError: view")
              /\ UNCHANGED stages_done
    /\ UNCHANGED <<wandb_calls, metrics>>
    /\ CMFrame

\* lines 168-177: mutual information, MIG and AAM; metric_helpers holds the
\* entropies, mig_k and aam_k
CM_Scores ==
    /\ pc = "scores"
    /\ stages_done' = stages_done \cup {"mut_info", "mig", "aam"}
    /\ pc' = "build_metrics"
    /\ UNCHANGED <<exception, wandb_calls, metrics>>
    /\ CMFrame

\* lines 179-182: the metrics record, torch.save of metric_helpers, return.
\* Reading a name no assignment has bound raises NameError.
CM_Finish ==
    /\ pc = "build_metrics"
    /\ IF CM_MetricsReads \subseteq CM_Locals
         THEN /\ metrics' = {"DM", "NLDM", "MIG", "AAM"}
              /\ stages_done' = stages_done \cup {"saved"}
              /\ pc' = "done"
              /\ UNCHANGED exception
         ELSE /\ Raise("NameError: non_linear_accuracies")
              /\ UNCHANGED <<stages_done, metrics>>
    /\ UNCHANGED wandb_calls
    /\ CMFrame

(***************************************************************************)
(* Claims about compute_metrics and _disentanglement_metric.               *)
(***************************************************************************)
Terminated == pc \in {"raised", "done"}

\* C1: compute_metrics on a dataset that exposes lat_sizes, lat_names and
\* imgs runs to completion without raising: when it ends it has saved the
\* diagnostic artifact and returned a record with the keys DM, MIG and AAM.
C1_ComputeMetricsCompletes ==
    (caller = "compute_metrics" /\ RequiredAttrs \subseteq dataset_attrs /\ Terminated)
        => /\ exception = ""
           /\ "saved" \in stages_done
           /\ {"DM", "MIG", "AAM"} \subseteq metrics

\* C3: when the dataset lacks one of lat_sizes, lat_names, imgs,
\* compute_metrics ends with the ValueError and nothing has been fitted,
\* generated, trained, estimated, returned or saved.
C3_MissingMetadataFailsFast ==
    (caller = "compute_metrics" /\ ~(RequiredAttrs \subseteq dataset_attrs)
       /\ pc # "compute_metrics")
        => /\ pc = "raised"
           /\ exception = "ValueError: dataset has no known factors"
           /\ methods = <<>> /\ fitted = {}
           /\ n_generated = 0
           /\ clf_mode = "none" /\ clf_steps = 0
           /\ stages_done = {} /\ metrics = {}

\* C3's case: a dataset without lat_names, after compute_metrics has raised
C3_Witness ==
    /\ caller = "compute_metrics"
    /\ dataset_attrs = {"lat_sizes", "imgs"}
    /\ pc = "raised"

HasUnknownMethod ==
    \E j \in 1..Len(method_names) : method_names[j] \notin KnownMethods

\* C4: a method list with a name outside {VAE, PCA, ICA} makes
\* _disentanglement_metric end with the "Unknown method" ValueError, with no
\* paired-sample record generated, no classifier trained and no accuracy.
C4_UnknownMethodValueError ==
    (caller = "direct" /\ HasUnknownMethod)
        => /\ n_generated = 0
           /\ clf_mode = "none" /\ clf_steps = 0
           /\ test_acc = {}
           /\ pc # "done"
           /\ pc = "raised" => exception = "ValueError: Unknown method"

DataGenerated == pc \in {"classifier", "epochs", "reset", "return_acc",
                         "log_accuracies", "done"}

\* C5: when data generation has finished, every representation's training
\* set holds dataset_size records and its test set int(0.2 * dataset_size),
\* with as many labels as difference vectors.
C5_SetSizes ==
    DataGenerated =>
        \A m \in Keys(methods) :
            /\ data_train[m].X = dataset_size
            /\ data_train[m].Y = data_train[m].X
            /\ data_test[m].X = TestShare(dataset_size)
            /\ data_test[m].Y = data_test[m].X

\* C6: every representation begins its epoch loop with the classifier in
\* training mode and with fresh or freshly reset weights.
C6_ClassifierCycle ==
    (pc = "epochs" /\ epoch = 0 /\ n_epochs > 0)
        => /\ clf_mode = "train"
           /\ clf_weights \in {"fresh", "reset"}

\* the ICA branch of the fitting loop has run for position j of the list
IcaBranchRan(j) ==
    /\ method_names[j] = "ICA"
    /\ \/ j < i_method
       \/ j = i_method /\ pc = "raised"

\* C7: for every method list that contains ICA, whatever else it holds and
\* in whatever order, the ICA fit completes and its subsample indices are
\* drawn from [0, N), N the number of images.
C7_IcaIndependent ==
    \A j \in 1..Len(method_names) :
        IcaBranchRan(j) => /\ "ICA" \in fitted
                           /\ ica_idx_high = NumImgs(lat_sizes)

(***************************************************************************)
(* Evaluator.compute_losses, lines 106-126.                                *)
(***************************************************************************)
MaxBatches == 3       \* most batches the loader yields
MaxLoss == 1          \* largest per-batch value of a loss

LossNames == {"loss", "kl_loss"}
BatchValues == [LossNames -> 0..MaxLoss]

RECURSIVE Sum(_)
Sum(s) == IF s = <<>> THEN 0 ELSE Head(s) + Sum(Tail(s))

MetricsIdle ==
    /\ pc = "idle" /\ caller = "none" /\ use_wandb = FALSE
    /\ dataset_attrs = {} /\ lat_sizes = <<>> /\ method_names = <<>>
    /\ dataset_size = 0 /\ n_epochs = 0 /\ i_method = 1 /\ methods = <<>>
    /\ imgs_pca_bound = FALSE /\ imgs_pca_len = 0 /\ ica_idx_high = 0
    /\ fitted = {} /\ n_generated = 0
    /\ data_train = EmptyData /\ data_test = EmptyData
    /\ clf_mode = "none" /\ clf_weights = "none" /\ clf_steps = 0
    /\ m_idx = 1 /\ epoch = 0 /\ test_acc = {} /\ exception = ""
    /\ wandb_calls = {} /\ stages_done = {} /\ metrics = {}

LossesIdle ==
    /\ l_pc = "idle" /\ loader = <<>> /\ multi_optimizer = FALSE
    /\ storer = [k \in {} |-> <<>>] /\ n_applied = 0
    /\ l_result = "pending" /\ losses = [k \in {} |-> 0]

\* line 113: storer = defaultdict(list)
LossesInit ==
    /\ l_pc = "loop"
    /\ loader \in UNION {[1..n -> BatchValues] : n \in 0..MaxBatches}
    /\ multi_optimizer \in BOOLEAN
    /\ storer = [k \in {} |-> <<>>]
    /\ n_applied = 0
    /\ l_result = "pending"
    /\ losses = [k \in {} |-> 0]

\* storer[k].append(v) for every loss name, on a defaultdict(list): what
\* loss_f (line 119) or call_optimize (line 123) does with its storer
Store(st, batch) ==
    [k \in LossNames |->
        Append(IF k \in DOMAIN st THEN st[k] ELSE <<>>, batch[k])]

\* line 125: {k: sum(v) / len(dataloader) for k, v in storer.items()}
MeanLosses(st, n_batches) ==
    [k \in DOMAIN st |-> [num |-> Sum(st[k]), den |-> n_batches]]

\* lines 114-126: one iteration of the for loop; lines 125-126 (the means
\* and "return losses") stand at the indentation of the loop body, so the
\* iteration ends the call
CL_Iteration ==
    /\ l_pc = "loop"
    /\ n_applied < Len(loader)
    /\ LET st == Store(storer, loader[n_applied + 1])
       IN /\ storer' = st
          /\ n_applied' = n_applied + 1
          /\ losses' = MeanLosses(st, Len(loader))
          /\ l_result' = "dict"
          /\ l_pc' = "done"
    /\ UNCHANGED <<loader, multi_optimizer, NotLosses>>

\* the loader is exhausted: the function falls off its end and returns None
CL_LoopEnd ==
    /\ l_pc = "loop"
    /\ n_applied = Len(loader)
    /\ l_result' = "None"
    /\ l_pc' = "done"
    /\ UNCHANGED <<loader, multi_optimizer, storer, n_applied, losses, NotLosses>>

\* the values of loss k over all the batches of the loader
AllBatches(k) == [j \in 1..Len(loader) |-> loader[j][k]]

\* C2: compute_losses has applied the loss function to every batch when it
\* returns, and returns for each loss name the sum of its per-batch values
\* over all batches divided by the number of batches.
C2_MeanOverAllBatches ==
    l_pc = "done"
        => /\ n_applied = Len(loader)
           /\ l_result = "dict"
                => \A k \in LossNames :
                      losses[k] = [num |-> Sum(AllBatches(k)), den |-> Len(loader)]

(***************************************************************************)
(* Evaluator._images_from_data_gen, lines 338-362, and its mixed-radix     *)
(* index (lines 352-356).  Sequences are 1-based; factor values, the       *)
(* chosen factor y and image indices are 0-based as in the code.           *)
(***************************************************************************)
MaxFactors == 3       \* most factors of a tuple that is encoded
RadixMaxLat == 3      \* largest cardinality of a factor of such a tuple
GenMaxLat == 2        \* largest cardinality of a factor in _images_from_data_gen
MaxSampleSize == 2    \* largest sample_size

\* s[::-1]
Reverse(s) == [j \in 1..Len(s) |-> s[Len(s) + 1 - j]]

\* s.cumprod()
CumProd(s) == [j \in 1..Len(s) |-> Prod(SubSeq(s, 1, j))]

\* line 352 without the two reversals
LatentsBases_Forward(ls) == Append(Tail(CumProd(ls)), 1)

\* lines 352-353: np.concatenate((lat_sizes[::-1].cumprod()[::-1][1:], [1]))
LatentsBases(ls) == Append(Tail(Reverse(CumProd(Reverse(ls)))), 1)

\* np.dot(row, latents_bases).astype(int) for one row of factor values
RECURSIVE Dot(_, _)
Dot(row, bases) ==
    IF row = <<>> THEN 0
    ELSE Head(row) * Head(bases) + Dot(Tail(row), Tail(bases))

\* lines 355-356: the index of every row
LatentIndices(rows, bases) == [r \in 1..Len(rows) |-> Dot(rows[r], bases)]

\* the valid tuples of factor values
Tuples(ls) == {t \in [1..Len(ls) -> 0..RadixMaxLat] :
                   \A j \in 1..Len(ls) : t[j] < ls[j]}

\* decoding by per-factor division and modulo, last factor first
RECURSIVE DecodeIndex(_, _)
DecodeIndex(idx, ls) ==
    IF ls = <<>> THEN <<>>
    ELSE LET n == Len(ls)
         IN Append(DecodeIndex(idx \div ls[n], SubSeq(ls, 1, n - 1)), idx % ls[n])

RadixIdle ==
    /\ r_pc = "idle" /\ r_lat_sizes = <<>> /\ r_tuple = <<>>
    /\ r_bases = <<>> /\ r_index = 0

RadixInit ==
    /\ r_pc = "start"
    /\ r_lat_sizes \in UNION {[1..n -> 1..RadixMaxLat] : n \in 1..MaxFactors}
    /\ r_tuple \in Tuples(r_lat_sizes)
    /\ r_bases = <<>>
    /\ r_index = 0

\* lines 352-353
R_Bases ==
    /\ r_pc = "start"
    /\ r_bases' = LatentsBases(r_lat_sizes)
    /\ r_pc' = "bases"
    /\ UNCHANGED <<r_lat_sizes, r_tuple, r_index, NotRadix>>

\* line 355, on the one tuple
R_Encode ==
    /\ r_pc = "bases"
    /\ r_index' = LatentIndices(<<r_tuple>>, r_bases)[1]
    /\ r_pc' = "encoded"
    /\ UNCHANGED <<r_lat_sizes, r_tuple, r_bases, NotRadix>>

\* C8: the mixed-radix index is a bijection between the valid tuples and
\* [0, N): the index of a valid tuple lies in [0, N), decoding it by
\* per-factor division and modulo recovers the tuple, and every integer of
\* [0, N) is the index of the tuple it decodes to.
C8_MixedRadixBijection ==
    r_pc = "encoded"
        => /\ r_index \in 0..(Prod(r_lat_sizes) - 1)
           /\ DecodeIndex(r_index, r_lat_sizes) = r_tuple
           /\ \A i \in 0..(Prod(r_lat_sizes) - 1) :
                 /\ DecodeIndex(i, r_lat_sizes) \in Tuples(r_lat_sizes)
                 /\ Dot(DecodeIndex(i, r_lat_sizes), r_bases) = i

\* C8's case: a tuple of three factors of different cardinalities, none of
\* its values 0, has been encoded
C8_Witness ==
    /\ r_pc = "encoded"
    /\ r_lat_sizes = <<2, 3, 2>>
    /\ r_tuple = <<1, 2, 1>>
    /\ r_index = 11

GenIdle ==
    /\ g_pc = "idle" /\ g_lat_sizes = <<>> /\ sample_size = 0
    /\ y = 0 /\ y_lat = <<>> /\ g_i = 0 /\ samples1 = <<>> /\ samples2 = <<>>
    /\ latent_indices1 = <<>> /\ latent_indices2 = <<>> /\ g_returned = <<>>

GenInit ==
    /\ g_pc = "choose"
    /\ g_lat_sizes \in [1..2 -> 1..GenMaxLat]
    /\ sample_size \in 1..MaxSampleSize
    /\ y = 0 /\ y_lat = <<>> /\ g_i = 0 /\ samples1 = <<>> /\ samples2 = <<>>
    /\ latent_indices1 = <<>> /\ latent_indices2 = <<>> /\ g_returned = <<>>

\* np.random.randint(high, size = n): n values of [0, high)
RandInts(high, n) == [1..n -> 0..(high - 1)]

\* np.zeros((sample_size, lat_sizes.size))
Zeros(n, m) == [r \in 1..n |-> [j \in 1..m |-> 0]]

\* lines 341-346: the factor kept fixed, its shared values, and the two
\* zero-filled sample arrays
IG_ChooseFactor ==
    /\ g_pc = "choose"
    /\ \E k \in 0..(Len(g_lat_sizes) - 1) :
         /\ y' = k
         /\ y_lat' \in RandInts(g_lat_sizes[k + 1], sample_size)
    /\ samples1' = Zeros(sample_size, Len(g_lat_sizes))
    /\ samples2' = Zeros(sample_size, Len(g_lat_sizes))
    /\ g_i' = 0
    /\ g_pc' = "sample"
    /\ UNCHANGED <<g_lat_sizes, sample_size, latent_indices1, latent_indices2,
                   g_returned, NotGen>>

\* line 349 with the test of the fixed factor always false
IsFixedFactor_Never(i) == FALSE

\* "i == y" of lines 349 and 350
IsFixedFactor(i) == i = y

\* samples[:, i] = col
SetColumn(samples, i, col) ==
    [r \in 1..Len(samples) |-> [samples[r] EXCEPT ![i + 1] = col[r]]]

\* lines 348-350: one iteration of the loop over the factors; i is the
\* 0-based position of the factor.  Each set gets y_lat for the fixed factor
\* and a draw of its own otherwise.
IG_SampleFactor ==
    /\ g_pc = "sample"
    /\ g_i < Len(g_lat_sizes)
    /\ LET lat_size == g_lat_sizes[g_i + 1]
       IN IF IsFixedFactor(g_i)
            THEN /\ samples1' = SetColumn(samples1, g_i, y_lat)
                 /\ samples2' = SetColumn(samples2, g_i, y_lat)
            ELSE \E draw1, draw2 \in RandInts(lat_size, sample_size) :
                 /\ samples1' = SetColumn(samples1, g_i, draw1)
                 /\ samples2' = SetColumn(samples2, g_i, draw2)
    /\ g_i' = g_i + 1
    /\ g_pc' = IF g_i + 1 = Len(g_lat_sizes) THEN "gather" ELSE "sample"
    /\ UNCHANGED <<g_lat_sizes, sample_size, y, y_lat, latent_indices1,
                   latent_indices2, g_returned, NotGen>>

\* lines 352-362: the bases, the image indices, the gathered images and the
\* return of (imgs_sampled1, imgs_sampled2, y)
IG_Gather ==
    /\ g_pc = "gather"
    /\ latent_indices1' = LatentIndices(samples1, LatentsBases(g_lat_sizes))
    /\ latent_indices2' = LatentIndices(samples2, LatentsBases(g_lat_sizes))
    /\ g_returned' = <<y>>
    /\ g_pc' = "done"
    /\ UNCHANGED <<g_lat_sizes, sample_size, y, y_lat, g_i, samples1, samples2, NotGen>>

\* C9: in every result of _images_from_data_gen, every row holds the same
\* value of the fixed factor in both sets, every value of factor i lies in
\* [0, lat_sizes[i]), both image indices of every row lie in [0, N), and
\* the label is the fixed factor, one of the factors.
C9_PairedSamples ==
    g_pc = "done"
        => /\ Len(samples1) = sample_size /\ Len(samples2) = sample_size
           /\ \A r \in 1..sample_size :
                 /\ samples1[r][y + 1] = samples2[r][y + 1]
                 /\ \A j \in 1..Len(g_lat_sizes) :
                       /\ samples1[r][j] \in 0..(g_lat_sizes[j] - 1)
                       /\ samples2[r][j] \in 0..(g_lat_sizes[j] - 1)
                 /\ latent_indices1[r] \in 0..(Prod(g_lat_sizes) - 1)
                 /\ latent_indices2[r] \in 0..(Prod(g_lat_sizes) - 1)
           /\ g_returned = <<y>>
           /\ y \in 0..(Len(g_lat_sizes) - 1)

\* C9's case: a result whose two rows agree on the fixed factor 1 and whose
\* free factor 0 differs between the sets in one row and agrees in the other
\* (the draws of the two sets are separate)
C9_Witness ==
    /\ g_pc = "done"
    /\ sample_size = 2
    /\ y = 1
    /\ samples1[1][1] # samples2[1][1]
    /\ samples1[2][1] = samples2[2][1]
    /\ samples1[1][2] # samples1[2][2]

(***************************************************************************)
(* Evaluator._estimate_latent_entropies, lines 466-501.  An element of     *)
(* samples_zCx is named by the pair <<example, coordinate>> it holds.      *)
(***************************************************************************)
MaxExamples == 3      \* largest len_dataset
MaxLatentDim == 2     \* largest latent_dim
MaxPivots == 3        \* largest n_samples
MaxMiniBatch == 2     \* largest mini_batch_size

Min(a, b) == IF a < b THEN a ELSE b

\* the sequences without repetition of m of the examples 0..N-1
Injections(N, m) ==
    {p \in [1..m -> 0..(N - 1)] :
        \A i, j \in 1..m : i # j => p[i] # p[j]}

EntropyIdle ==
    /\ e_pc = "idle" /\ len_dataset = 0 /\ latent_dim = 0 /\ n_samples = 0
    /\ mini_batch_size = 0 /\ samples_x = <<>> /\ pivots = <<>> /\ e_k = 0
    /\ visited = <<>> /\ H_divisor = 0 /\ e_exception = ""

\* lines 466-468; mini_batch_size is the constant of line 475
EntropyInit ==
    /\ e_pc = "select"
    /\ len_dataset \in 1..MaxExamples
    /\ latent_dim \in 1..MaxLatentDim
    /\ n_samples \in 1..MaxPivots
    /\ mini_batch_size \in 1..MaxMiniBatch
    /\ samples_x = <<>> /\ pivots = <<>> /\ e_k = 0
    /\ visited = <<>> /\ H_divisor = 0 /\ e_exception = ""

EFrame == UNCHANGED <<len_dataset, latent_dim, n_samples, mini_batch_size, NotEntropy>>

\* line 471: torch.randperm(len_dataset)[:n_samples], a slice that ends at
\* the end of the permutation when n_samples is beyond it
E_SelectPivots ==
    /\ e_pc = "select"
    /\ samples_x' \in Injections(len_dataset, Min(len_dataset, n_samples))
    /\ e_pc' = "view"
    /\ UNCHANGED <<pivots, e_k, visited, H_divisor, e_exception>>
    /\ EFrame

\* the element at position f (0-based) of the row-major layout of
\* samples_zCx.index_select(0, samples_x), a (selected rows, latent_dim) table
Flat(sel, D, f) == <<sel[(f \div D) + 1], f % D>>

\* .view(latent_dim, n_samples): the same layout read as latent_dim rows of
\* n_samples entries
View(sel, D, n) ==
    [a \in 1..D |-> [b \in 1..n |-> Flat(sel, D, (a - 1) * n + (b - 1))]]

\* line 473: index_select and view.  view raises RuntimeError unless the
\* selected table holds latent_dim * n_samples elements.
E_View ==
    /\ e_pc = "view"
    /\ IF Len(samples_x) * latent_dim = latent_dim * n_samples
         THEN /\ pivots' = View(samples_x, latent_dim, n_samples)
              /\ e_pc' = "minibatches"
              /\ UNCHANGED e_exception
         ELSE /\ e_exception' = "RuntimeError: view"
              /\ e_pc' = "raised"
              /\ UNCHANGED pivots
    /\ e_k' = 0
    /\ UNCHANGED <<samples_x, visited, H_divisor>>
    /\ EFrame

\* slice(k, k + mini_batch_size) taken only when a whole minibatch is left
SliceColumns_WholeOnly(from, n) ==
    IF from + mini_batch_size <= n
      THEN [j \in 1..mini_batch_size |-> from + j - 1]
      ELSE <<>>

\* the columns of slice(k, k + mini_batch_size) among n columns
SliceColumns(from, n) ==
    [j \in 1..(Min(from + mini_batch_size, n) - from) |-> from + j - 1]

\* lines 481-497: one minibatch; H_z += (-log_q_z).sum(1) accumulates the
\* columns of the slice
E_MiniBatch ==
    /\ e_pc = "minibatches"
    /\ e_k < n_samples
    /\ visited' = visited \o SliceColumns(e_k, n_samples)
    /\ e_k' = e_k + mini_batch_size
    /\ UNCHANGED <<e_pc, samples_x, pivots, H_divisor, e_exception>>
    /\ EFrame

\* lines 499-501: H_z /= n_samples, return H_z
E_Finish ==
    /\ e_pc = "minibatches"
    /\ e_k >= n_samples
    /\ H_divisor' = n_samples
    /\ e_pc' = "done"
    /\ UNCHANGED <<samples_x, pivots, e_k, visited, e_exception>>
    /\ EFrame

\* C10: called with fewer examples than pivots asked for, the estimator
\* does not fail: it ends having used each of the N examples once as a
\* pivot and having divided by the number of pivots used.
C10_ClampsToAvailable ==
    (len_dataset < n_samples /\ e_pc \in {"raised", "done"})
        => /\ e_exception = ""
           /\ Len(visited) = len_dataset
           /\ \A i, j \in 1..Len(visited) : i # j => visited[i] # visited[j]
           /\ H_divisor = len_dataset

\* the columns 0 .. n - 1 in order
FirstColumns(n) == [j \in 1..n |-> j - 1]

\* C15: the minibatch loop accumulates every pivot column of [0, n_samples)
\* in exactly one minibatch and none twice, whatever the minibatch size:
\* after each minibatch the columns accumulated are exactly those below k,
\* once each, and at the end all n_samples of them.
C15_EveryPivotOnce ==
    /\ e_pc = "minibatches" => visited = FirstColumns(Min(e_k, n_samples))
    /\ e_pc = "done" => visited = FirstColumns(n_samples)

\* C15's case: three pivots in minibatches of two, the last one partial
C15_Witness ==
    /\ e_pc = "done"
    /\ n_samples = 3
    /\ mini_batch_size = 2
    /\ visited = <<0, 1, 2>>

\* C16: the pivot matrix is the transpose of the selected rows: its entry
\* for latent dimension a and pivot b is coordinate a of the b-th selected
\* example.
C16_PivotsAreTranspose ==
    e_pc \in {"minibatches", "done"}
        => \A a \in 1..latent_dim, b \in 1..n_samples :
              pivots[a][b] = <<samples_x[b], a - 1>>

\* the entry points of the tracking service the evaluator calls
WandbApi == {"config", "log", "save"}

\* the step of the run whose flag is `flag`, calls_next being the calls its
\* tracking service has received after the step
StepWith(flag, calls_next) ==
    \/ CM_StartWith(flag, calls_next)
    \/ DM_FitPCAWith(flag, calls_next)
    \/ DM_FitICAWith(flag, calls_next)
    \/ CM_LogAccuraciesWith(flag, calls_next)
    \/ DM_FitVAE \/ DM_FitUnknown \/ DM_GenerateData \/ DM_CreateClassifier
    \/ DM_TrainEpoch \/ DM_Evaluate \/ DM_WeightReset \/ DM_Return
    \/ CM_ComputeQzCx \/ CM_MarginalEntropy \/ CM_ConditionalEntropy
    \/ CM_Scores \/ CM_Finish

\* C12: tracking is skippable.  With use_wandb false no entry point of the
\* tracking service is ever called, and every step of a run is, from the
\* same state and with the same draws, also the step of the run whose flag
\* is the opposite: the two runs go through the same computation steps and
\* end with the same outcome and metrics, and differ in the calls received
\* by the tracking service only.
C12_TrackingSkippable ==
    [][/\ ~use_wandb => wandb_calls = {} /\ wandb_calls' = {}
       /\ \E calls_next \in SUBSET WandbApi : StepWith(~use_wandb, calls_next)]_vars

\* C12's case: a run without tracking is past the four guarded call sites
C12_Witness ==
    /\ ~use_wandb
    /\ caller = "compute_metrics"
    /\ pc = "q_zCx"
    /\ methods = <<"VAE", "PCA", "ICA">>
    /\ wandb_calls = {}

(***************************************************************************)
(* Evaluator._axis_aligned_metric (lines 387-398) on the table built by    *)
(* lines 172-173 of compute_metrics.  Mutual informations are small        *)
(* integers; a float is a record: a finite ratio num/den, "nan" or "inf".  *)
(***************************************************************************)
MaxAamFactors == 2    \* most factors (rows) of the table
MaxMI == 2            \* largest entry of mut_info

\* entries of -H_zCv + H_z: an estimate can come out below zero
MIValues == (-1)..MaxMI

MITables ==
    UNION {[1..f -> [1..d -> MIValues]] : f \in 1..MaxAamFactors, d \in 1..2}

Finite(n, d) == [kind |-> "finite", num |-> n, den |-> d]
NaN == [kind |-> "nan", num |-> 0, den |-> 0]
Inf == [kind |-> "inf", num |-> 1, den |-> 0]
NoFloat == [kind |-> "none", num |-> 0, den |-> 0]

\* row without its m-th entry
Remove(row, m) ==
    [j \in 1..(Len(row) - 1) |-> IF j < m THEN row[j] ELSE row[j + 1]]

\* torch.sort(row, descending=True)[0]
RECURSIVE SortDescending(_)
SortDescending(row) ==
    IF row = <<>> THEN <<>>
    ELSE LET m == CHOOSE i \in 1..Len(row) : \A j \in 1..Len(row) : row[j] <= row[i]
         IN <<row[m]>> \o SortDescending(Remove(row, m))

\* x.clamp(min=0)
ClampMin0(x) == IF x < 0 THEN 0 ELSE x

\* float division a / b of a >= 0 by b >= 0: 0/0 is nan, a/0 is inf
FloatDiv(a, b) ==
    IF b # 0 THEN Finite(a, b)
    ELSE IF a = 0 THEN NaN ELSE Inf

\* float addition
FloatAdd(a, b) ==
    IF a.kind = "nan" \/ b.kind = "nan" THEN NaN
    ELSE IF a.kind = "inf" \/ b.kind = "inf" THEN Inf
    ELSE Finite(a.num * b.den + b.num * a.den, a.den * b.den)

RECURSIVE FloatSum(_)
FloatSum(fs) ==
    IF fs = <<>> THEN Finite(0, 1) ELSE FloatAdd(Head(fs), FloatSum(Tail(fs)))

\* fs.mean()
FloatMean(fs) ==
    LET total == FloatSum(fs)
    IN IF total.kind = "finite"
         THEN Finite(total.num, total.den * Len(fs))
         ELSE total

\* the entry is left as the division gave it
NanToZero_Keep(v) == v

\* aam_k[torch.isnan(aam_k)] = 0 on one entry
NanToZero(v) == IF v.kind = "nan" THEN Finite(0, 1) ELSE v

AamIdle ==
    /\ a_pc = "idle" /\ mut_info = <<>> /\ sorted_mut_info = <<>>
    /\ numerator = <<>> /\ aam_k = <<>> /\ aam = NoFloat

\* line 172: any table of estimates
AamInit ==
    /\ a_pc = "sort"
    /\ mut_info \in MITables
    /\ sorted_mut_info = <<>>
    /\ numerator = <<>>
    /\ aam_k = <<>>
    /\ aam = NoFloat

\* line 173: every row sorted in descending order, then clamped at zero
AAM_SortClamp ==
    /\ a_pc = "sort"
    /\ sorted_mut_info' =
         [f \in 1..Len(mut_info) |->
            LET row == SortDescending(mut_info[f])
            IN [d \in 1..Len(row) |-> ClampMin0(row[d])]]
    /\ a_pc' = "numerator"
    /\ UNCHANGED <<mut_info, numerator, aam_k, aam, NotAam>>

\* line 389
AAM_Numerator ==
    /\ a_pc = "numerator"
    /\ numerator' =
         [f \in 1..Len(sorted_mut_info) |->
            ClampMin0(Head(sorted_mut_info[f]) - Sum(Tail(sorted_mut_info[f])))]
    /\ a_pc' = "divide"
    /\ UNCHANGED <<mut_info, sorted_mut_info, aam_k, aam, NotAam>>

\* line 390
AAM_Divide ==
    /\ a_pc = "divide"
    /\ aam_k' = [f \in 1..Len(numerator) |->
                   FloatDiv(numerator[f], Head(sorted_mut_info[f]))]
    /\ a_pc' = "isnan"
    /\ UNCHANGED <<mut_info, sorted_mut_info, numerator, aam, NotAam>>

\* line 391
AAM_NanToZero ==
    /\ a_pc = "isnan"
    /\ aam_k' = [f \in 1..Len(aam_k) |-> NanToZero(aam_k[f])]
    /\ a_pc' = "mean"
    /\ UNCHANGED <<mut_info, sorted_mut_info, numerator, aam, NotAam>>

\* lines 392-398
AAM_Mean ==
    /\ a_pc = "mean"
    /\ aam' = FloatMean(aam_k)
    /\ a_pc' = "done"
    /\ UNCHANGED <<mut_info, sorted_mut_info, numerator, aam_k, NotAam>>

\* C11: once line 391 has run no aam_k is not-a-number, a factor whose
\* largest mutual information is zero has aam_k = 0, and the mean returned
\* is not not-a-number.
C11_NoNaN ==
    /\ a_pc \in {"mean", "done"} =>
         \A f \in 1..Len(aam_k) :
            /\ aam_k[f].kind # "nan"
            /\ Head(sorted_mut_info[f]) = 0 => aam_k[f] = Finite(0, 1)
    /\ a_pc = "done" => aam.kind # "nan"

\* C11's case: one factor whose row is all zero after the clamp (0/0 at
\* line 390) next to a factor that is informative
C11_Witness ==
    /\ a_pc = "done"
    /\ Len(sorted_mut_info) = 2
    /\ sorted_mut_info[1] = <<0, 0>>
    /\ Head(sorted_mut_info[2]) > 0
    /\ aam_k[1] = Finite(0, 1)
    /\ aam.kind = "finite"

(***************************************************************************)
(* Evaluator._compute_q_zCx (lines 400-435).  Examples are named by their  *)
(* position in loader order; the encoder's output for example x is the     *)
(* pair (<<"mean", x>>, <<"log_var", x>>), the same for every latent       *)
(* dimension, so one entry per row stands for its latent_dim columns.      *)
(***************************************************************************)
MaxRows == 4          \* largest len(dataloader.dataset)

\* the sequences of positive batch sizes that sum to total
RECURSIVE Compositions(_)
Compositions(total) ==
    IF total = 0 THEN {<<>>}
    ELSE UNION {{<<b>> \o c : c \in Compositions(total - b)} : b \in 1..total}

\* what a loader over N examples can yield: all of them in batches of any
\* sizes, fewer (drop_last), or more (a sampler that draws with replacement)
Loaders(N) == UNION {Compositions(total) : total \in 0..(N + 1)}

\* torch.zeros: a row before it is assigned
ZeroRow == [mean |-> <<"zero">>, log_var |-> <<"zero">>]

\* self.model.encoder on example x: the row [:, 0] and [:, 1] receive
Encoded(x) == [mean |-> <<"mean", x>>, log_var |-> <<"log_var", x>>]

\* every batch is written from row 0 on
QSlice_FromZero(n, batch_size) == [j \in 1..batch_size |-> j - 1]

\* slice(n, n + batch_size), before it is cut to the table
QSlice(n, batch_size) == [j \in 1..batch_size |-> n + j - 1]

QzCxIdle ==
    /\ q_pc = "idle" /\ q_len_dataset = 0 /\ q_loader = <<>> /\ q_i = 0
    /\ q_n = 0 /\ q_zCx = <<>> /\ q_written = <<>> /\ q_exception = ""

\* lines 418-424
QzCxInit ==
    /\ q_pc = "loop"
    /\ q_len_dataset \in 1..MaxRows
    /\ q_loader \in Loaders(q_len_dataset)
    /\ q_i = 0
    /\ q_n = 0
    /\ q_zCx = [r \in 1..q_len_dataset |-> ZeroRow]
    /\ q_written = [r \in 1..q_len_dataset |-> 0]
    /\ q_exception = ""

\* lines 426-430: one batch.  A slice that runs past the table is cut to
\* it, and assigning batch_size rows to fewer raises.
Q_Batch ==
    /\ q_pc = "loop"
    /\ q_i < Len(q_loader)
    /\ LET batch_size == q_loader[q_i + 1]
           first == Sum(SubSeq(q_loader, 1, q_i))
           idcs == QSlice(q_n, batch_size)
           pos(r) == CHOOSE j \in 1..batch_size : idcs[j] = r - 1
       IN IF \E j \in 1..batch_size : idcs[j] >= q_len_dataset
            THEN /\ q_exception' = "RuntimeError: shape mismatch"
                 /\ q_pc' = "raised"
                 /\ UNCHANGED <<q_i, q_n, q_zCx, q_written>>
            ELSE /\ q_zCx' =
                      [r \in 1..q_len_dataset |->
                         IF \E j \in 1..batch_size : idcs[j] = r - 1
                           THEN Encoded(first + pos(r) - 1)
                           ELSE q_zCx[r]]
                 /\ q_written' =
                      [r \in 1..q_len_dataset |->
                         IF \E j \in 1..batch_size : idcs[j] = r - 1
                           THEN q_written[r] + 1
                           ELSE q_written[r]]
                 /\ q_n' = q_n + batch_size
                 /\ q_i' = q_i + 1
                 /\ UNCHANGED <<q_pc, q_exception>>
    /\ UNCHANGED <<q_len_dataset, q_loader, NotQzCx>>

\* lines 432-435
Q_Return ==
    /\ q_pc = "loop"
    /\ q_i = Len(q_loader)
    /\ q_pc' = "done"
    /\ UNCHANGED <<q_len_dataset, q_loader, q_i, q_n, q_zCx, q_written,
                   q_exception, NotQzCx>>

\* C13: for a loader whose batch sizes sum to N = len(dataset), the call
\* does not fail, the table keeps its N rows, and at the return every row
\* i of [0, N) has been assigned exactly once and holds the (mean, log-var)
\* of the i-th example in loader order.
C13_EveryRowOnce ==
    Sum(q_loader) = q_len_dataset =>
        /\ q_exception = ""
        /\ Len(q_zCx) = q_len_dataset
        /\ q_pc = "done" =>
             \A r \in 1..q_len_dataset :
                /\ q_written[r] = 1
                /\ q_zCx[r] = Encoded(r - 1)

\* C13's case: three examples in a batch of two and a smaller final batch
C13_Witness ==
    /\ q_pc = "done"
    /\ q_len_dataset = 3
    /\ q_loader = <<2, 1>>
    /\ q_zCx[3] = Encoded(2)

(***************************************************************************)
(* Evaluator._estimate_H_zCv (lines 503-521) on the table that lines       *)
(* 164-165 of compute_metrics view with shape lat_sizes + (latent_dim,).   *)
(* A row of the table is named by its dataset index.  Every slice is       *)
(* handed to _estimate_latent_entropies with the default n_samples         *)
(* (N_SAMPLES here).                                                       *)
(***************************************************************************)
HMaxFactors == 3      \* most factors of the dataset
HMaxLat == 3          \* largest cardinality of a factor

HLatSizes == UNION {[1..n -> 1..HMaxLat] : n \in 1..HMaxFactors}

\* strides of a contiguous tensor of shape ls
Strides(ls) == [a \in 1..Len(ls) |-> Prod(SubSeq(ls, a + 1, Len(ls)))]

\* shape ls without its dimension a
DropDim(ls, a) == SubSeq(ls, 1, a - 1) \o SubSeq(ls, a + 1, Len(ls))

\* position p (0-based) of a contiguous tensor of shape ls, as a multi-index
RECURSIVE Unravel(_, _)
Unravel(p, ls) ==
    IF ls = <<>> THEN <<>>
    ELSE LET rest == Prod(Tail(ls))
         IN <<p \div rest>> \o Unravel(p % rest, Tail(ls))

\* t[idcs].contiguous().view(N // ls[a], D) for t of shape ls + (D,), with
\* idcs[a] = i and slice(None) elsewhere: the rows of the result, as dataset
\* indices
SliceOf(ls, a, i) ==
    [p \in 1..(Prod(ls) \div ls[a]) |->
        LET rest == Unravel(p - 1, DropDim(ls, a))
            multi == SubSeq(rest, 1, a - 1) \o <<i>> \o SubSeq(rest, a, Len(rest))
        IN Dot(multi, Strides(ls))]

HzCvIdle ==
    /\ h_pc = "idle" /\ h_lat_sizes = <<>> /\ i_fac_var = 0 /\ h_val = 0
    /\ samples_zxCv = <<>> /\ h_handed = <<>> /\ H_zCv = <<>>
    /\ h_exception = ""

\* lines 505-509
HzCvInit ==
    /\ h_pc = "slice"
    /\ h_lat_sizes \in HLatSizes
    /\ i_fac_var = 0
    /\ h_val = 0
    /\ samples_zxCv = <<>>
    /\ h_handed = <<>>
    /\ H_zCv = [a \in 1..Len(h_lat_sizes) |-> <<>>]
    /\ h_exception = ""

\* lines 510-517: the slice of value i of factor i_fac_var
H_Slice ==
    /\ h_pc = "slice"
    /\ i_fac_var < Len(h_lat_sizes)
    /\ samples_zxCv' = SliceOf(h_lat_sizes, i_fac_var + 1, h_val)
    /\ h_pc' = "estimate"
    /\ UNCHANGED <<h_lat_sizes, i_fac_var, h_val, h_handed, H_zCv, h_exception,
                   NotHzCv>>

\* lines 519-520: the estimator, called without n_samples, fails at line 473
\* on a slice of fewer than n_samples rows; otherwise its result is added
\* with weight 1 / lat_size and the loops move on
H_Estimate ==
    /\ h_pc = "estimate"
    /\ h_handed' = Append(h_handed, <<i_fac_var, h_val, samples_zxCv>>)
    /\ LET lat_size == h_lat_sizes[i_fac_var + 1]
       IN IF Len(samples_zxCv) < N_SAMPLES
            THEN /\ h_exception' = "RuntimeError: view"
                 /\ h_pc' = "raised"
                 /\ UNCHANGED <<i_fac_var, h_val, H_zCv>>
            ELSE /\ H_zCv' = [H_zCv EXCEPT ![i_fac_var + 1] =
                                Append(@, <<h_val, [num |-> 1, den |-> lat_size]>>)]
                 /\ IF h_val + 1 < lat_size
                      THEN /\ h_val' = h_val + 1
                           /\ UNCHANGED i_fac_var
                      ELSE /\ h_val' = 0
                           /\ i_fac_var' = i_fac_var + 1
                 /\ h_pc' = "slice"
                 /\ UNCHANGED h_exception
    /\ UNCHANGED <<h_lat_sizes, samples_zxCv, NotHzCv>>

\* line 521
H_Return ==
    /\ h_pc = "slice"
    /\ i_fac_var = Len(h_lat_sizes)
    /\ h_pc' = "done"
    /\ UNCHANGED <<h_lat_sizes, i_fac_var, h_val, samples_zxCv, h_handed, H_zCv,
                   h_exception, NotHzCv>>

\* the examples whose dataset index has digit v for factor a (1-based)
WithDigit(ls, a, v) ==
    {idx \in 0..(Prod(ls) - 1) : DecodeIndex(idx, ls)[a] = v}

\* the elements of a sequence
Range(sq) == {sq[p] : p \in 1..Len(sq)}

\* every slice handed to the estimator so far is the set of examples with
\* that digit, each once
HandedSlicesRight ==
    \A p \in 1..Len(h_handed) :
        LET a == h_handed[p][1] + 1
            v == h_handed[p][2]
            rows == h_handed[p][3]
        IN /\ Range(rows) = WithDigit(h_lat_sizes, a, v)
           /\ Len(rows) = Prod(h_lat_sizes) \div h_lat_sizes[a]
           /\ Cardinality(Range(rows)) = Len(rows)

\* C14: when _estimate_H_zCv ends, for every factor and every value of it
\* exactly one slice has been handed to the estimator, made of the
\* N / lat_sizes[k] examples whose index has that digit (so the slices of a
\* factor are disjoint and cover the dataset), and its entropy has entered
\* H_zCv[k] with weight 1 / lat_sizes[k].
C14_SlicesPartition ==
    h_pc \in {"done", "raised"} =>
        /\ HandedSlicesRight
        /\ \A a \in 1..Len(h_lat_sizes) :
              \A v \in 0..(h_lat_sizes[a] - 1) :
                 /\ Cardinality({p \in 1..Len(h_handed) :
                        h_handed[p][1] = a - 1 /\ h_handed[p][2] = v}) = 1
                 /\ Cardinality({p \in 1..Len(H_zCv[a]) :
                        H_zCv[a][p] = <<v, [num |-> 1, den |-> h_lat_sizes[a]]>>}) = 1

(***************************************************************************)
(* Evaluator.__call__ (lines 69-104).  The calls of compute_metrics and    *)
(* compute_losses are taken by their outcome: compute_metrics returns its  *)
(* record only if line 179 can be evaluated and ends in one of its         *)
(* exceptions otherwise; compute_losses returns the record of its first    *)
(* iteration, or None on a loader that yields nothing (lines 114-126).     *)
(* Neither touches the mode of self.model: the train() and eval() calls of *)
(* _disentanglement_metric are on the classifier.                          *)
(***************************************************************************)
MaxLenLoader == 2     \* most batches of the data_loader

\* the exceptions a call of compute_metrics(data_loader) ends with
CM_Raises == {"ValueError: dataset has no known factors",
              "IndexError: imgs_ica[idx]",
              "RuntimeError: view",
              "NameError: non_linear_accuracies"}

\* compute_metrics reaches its return statement
CM_Returns == CM_MetricsReads \subseteq CM_Locals

\* the value compute_losses returns on a loader of n batches
CL_Returns(n) == IF n > 0 THEN "losses record" ELSE "None"

\* binding a local name
Bind(locals, name, value) ==
    [x \in DOMAIN locals \cup {name} |-> IF x = name THEN value ELSE locals[x]]

\* the mode is left as the computation had it
ModeAfter_NoRestore(was_training, mode) == mode

\* lines 99-100: if is_still_training: self.model.train()
ModeAfter(was_training, mode) == IF was_training THEN TRUE ELSE mode

CallIdle ==
    /\ c_pc = "idle" /\ is_metrics = FALSE /\ is_losses = FALSE
    /\ len_loader = 0 /\ model_training = FALSE /\ mode_found = FALSE
    /\ is_still_training = FALSE /\ call_locals = <<>> /\ saved_files = {}
    /\ returned = <<>> /\ c_exception = ""

\* the call __call__(data_loader, is_metrics, is_losses) on a model in
\* either mode
CallInit ==
    /\ c_pc = "enter"
    /\ is_metrics \in BOOLEAN
    /\ is_losses \in BOOLEAN
    /\ len_loader \in 0..MaxLenLoader
    /\ model_training \in BOOLEAN
    /\ mode_found = model_training
    /\ is_still_training = FALSE
    /\ call_locals = <<>>
    /\ saved_files = {}
    /\ returned = <<>>
    /\ c_exception = ""

CallFrame == UNCHANGED <<is_metrics, is_losses, len_loader, mode_found, NotCall>>

\* lines 82-86
EV_Enter ==
    /\ c_pc = "enter"
    /\ is_still_training' = model_training
    /\ model_training' = FALSE
    /\ call_locals' = [x \in {"metric", "losses"} |-> "None"]
    /\ c_pc' = "metrics"
    /\ UNCHANGED <<saved_files, returned, c_exception>>
    /\ CallFrame

\* lines 87-91
EV_Metrics ==
    /\ c_pc = "metrics"
    /\ IF ~is_metrics
         THEN /\ c_pc' = "losses"
              /\ UNCHANGED <<call_locals, saved_files, c_exception>>
         ELSE IF CM_Returns
           THEN /\ call_locals' = Bind(call_locals, "metrics", "metrics record")
                /\ saved_files' = saved_files \cup {"metrics.log"}
                /\ c_pc' = "losses"
                /\ UNCHANGED c_exception
           ELSE /\ c_exception' \in CM_Raises
                /\ c_pc' = "raised"
                /\ UNCHANGED <<call_locals, saved_files>>
    /\ UNCHANGED <<model_training, is_still_training, returned>>
    /\ CallFrame

\* lines 93-97
EV_Losses ==
    /\ c_pc = "losses"
    /\ IF is_losses
         THEN /\ call_locals' = Bind(call_locals, "losses", CL_Returns(len_loader))
              /\ saved_files' = saved_files \cup {"test_losses.log"}
         ELSE UNCHANGED <<call_locals, saved_files>>
    /\ c_pc' = "restore"
    /\ UNCHANGED <<model_training, is_still_training, returned, c_exception>>
    /\ CallFrame

\* lines 99-100
EV_Restore ==
    /\ c_pc = "restore"
    /\ model_training' = ModeAfter(is_still_training, model_training)
    /\ c_pc' = "return"
    /\ UNCHANGED <<is_still_training, call_locals, saved_files, returned, c_exception>>
    /\ CallFrame

\* line 104: return metric, losses
EV_Return ==
    /\ c_pc = "return"
    /\ returned' = <<call_locals["metric"], call_locals["losses"]>>
    /\ c_pc' = "returned"
    /\ UNCHANGED <<model_training, is_still_training, call_locals, saved_files,
                   c_exception>>
    /\ CallFrame

\* C17: when __call__ ends it has returned a pair; its first element is the
\* metrics record, which is also in the metrics log, when is_metrics is
\* true and None when it is false; its second element is the losses record
\* exactly when is_losses is true.
C17_ReturnsRecords ==
    c_pc \in {"returned", "raised"} =>
        /\ c_pc = "returned"
        /\ is_metrics => /\ returned[1] = "metrics record"
                         /\ "metrics.log" \in saved_files
        /\ ~is_metrics => returned[1] = "None"
        /\ returned[2] = "losses record" <=> is_losses

\* C18: the model is in evaluation mode whenever compute_metrics or
\* compute_losses is about to run or has just run, and when __call__ has
\* returned the model is in the mode it was found in.
C18_ModeRestored ==
    /\ c_pc \in {"metrics", "losses", "restore"} => ~model_training
    /\ c_pc \in {"return", "returned"} => model_training = mode_found

\* C18's case: a model found in training mode, evaluated (losses computed
\* in evaluation mode) and handed back in training mode
C18_Witness ==
    /\ c_pc = "returned"
    /\ mode_found
    /\ is_losses
    /\ "test_losses.log" \in saved_files
    /\ model_training

(***************************************************************************)
(* Trainer.__call__, _train_epoch and _train_iteration (training.py, lines *)
(* 100-213), as far as the mode of self.model goes.                        *)
(***************************************************************************)
MaxTrainEpochs == 2   \* largest epochs
MaxTrainBatches == 2  \* most batches of the data_loader
MaxSteps == 1         \* largest self.steps

\* the parameters of Evaluator.__init__ (evaluate.py, lines 54-58)
EvaluatorParams == {"model", "loss_f", "device", "logger", "save_dir",
                    "is_progress_bar", "use_wandb"}

\* the keyword arguments of the call of training.py, lines 105-106
TrainerEvaluatorKwargs == {"model", "loss_f", "device", "dset_name", "seed",
                           "higgins_drop_slow", "sample_size", "dataset_size",
                           "no_shape_classifier"}

\* the parameters of Evaluator.compute_metrics (evaluate.py, line 128) and
\* the arguments of the call of training.py, line 130
ComputeMetricsParams == {"dataloader"}
TrainerComputeMetricsKwargs == {"dataset"}

\* a call with keyword arguments the callee does not declare is a TypeError
Accepts(params, kwargs) == kwargs \subseteq params

\* train() that leaves the mode as it is
Train_Noop(mode) == mode

\* nn.Module.train() and nn.Module.eval(): the value of .training afterwards
Train(mode) == TRUE
Eval(mode) == FALSE

TrainerIdle ==
    /\ t_pc = "idle" /\ wandb_log = FALSE /\ t_epochs = 0 /\ t_len_loader = 0
    /\ t_steps = <<>> /\ t_training = FALSE /\ t_epoch = 0 /\ t_step = 0
    /\ train_evaluator = FALSE /\ t_evaluations = {} /\ t_returned = FALSE
    /\ t_exception = ""

\* the call __call__(data_loader, epochs, checkpoint_every, wandb_log) on a
\* model in either mode
TrainerInit ==
    /\ t_pc = "start"
    /\ wandb_log \in BOOLEAN
    /\ t_epochs \in 0..MaxTrainEpochs
    /\ t_len_loader \in 0..MaxTrainBatches
    /\ t_steps \in {<<>>} \cup {<<n>> : n \in 0..MaxSteps}
    /\ t_training \in BOOLEAN
    /\ t_epoch = 0
    /\ t_step = 0
    /\ train_evaluator = FALSE
    /\ t_evaluations = {}
    /\ t_returned = FALSE
    /\ t_exception = ""

TFrame == UNCHANGED <<wandb_log, t_epochs, t_len_loader, t_steps, NotTrainer>>

\* lines 100-106
TR_Start ==
    /\ t_pc = "start"
    /\ t_training' = Train(t_training)
    /\ IF wandb_log /\ ~Accepts(EvaluatorParams, TrainerEvaluatorKwargs)
         THEN /\ t_exception' = "TypeError: __init__() got an unexpected keyword argument"
              /\ t_pc' = "raised"
              /\ UNCHANGED train_evaluator
         ELSE /\ train_evaluator' = wandb_log
              /\ t_pc' = "epoch"
              /\ UNCHANGED t_exception
    /\ UNCHANGED <<t_epoch, t_step, t_evaluations, t_returned>>
    /\ TFrame

\* lines 108-111: the next epoch begins; assert self.model.training
TR_EpochStart ==
    /\ t_pc = "epoch"
    /\ t_epoch < t_epochs
    /\ IF t_training
         THEN /\ t_pc' = "train_epoch"
              /\ t_step' = 0
              /\ UNCHANGED t_exception
         ELSE /\ t_exception' = "AssertionError"
              /\ t_pc' = "raised"
              /\ UNCHANGED t_step
    /\ UNCHANGED <<t_training, t_epoch, train_evaluator, t_evaluations, t_returned>>
    /\ TFrame

\* line 174: if self.steps is not None and step > self.steps: break
StepsBreak(step) == t_steps # <<>> /\ step > t_steps[1]

\* lines 173-180 and 185-213: one training iteration; assert
\* self.model.training (line 202)
TR_TrainIteration ==
    /\ t_pc = "train_epoch"
    /\ t_step < t_len_loader
    /\ ~StepsBreak(t_step)
    /\ IF t_training
         THEN /\ t_step' = t_step + 1
              /\ UNCHANGED <<t_pc, t_exception>>
         ELSE /\ t_exception' = "AssertionError"
              /\ t_pc' = "raised"
              /\ UNCHANGED t_step
    /\ UNCHANGED <<t_training, t_epoch, train_evaluator, t_evaluations, t_returned>>
    /\ TFrame

\* the loop of _train_epoch ends (or breaks); lines 112-125 of __call__,
\* the last of which is self.model.eval().  mean_epoch_loss divides by
\* len(data_loader) (line 182).
TR_EpochEnd ==
    /\ t_pc = "train_epoch"
    /\ t_step = t_len_loader \/ StepsBreak(t_step)
    /\ IF t_len_loader = 0
         THEN /\ t_exception' = "ZeroDivisionError"
              /\ t_pc' = "raised"
              /\ UNCHANGED t_training
         ELSE /\ t_training' = Eval(t_training)
              /\ t_pc' = "evaluate"
              /\ UNCHANGED t_exception
    /\ UNCHANGED <<t_epoch, t_step, train_evaluator, t_evaluations, t_returned>>
    /\ TFrame

\* lines 127-133: with wandb_log, compute_metrics on the epochs where line
\* 129 says so (any epoch here) and compute_losses
TR_Evaluate ==
    /\ t_pc = "evaluate"
    /\ IF ~wandb_log
         THEN /\ t_pc' = "resume"
              /\ UNCHANGED <<t_evaluations, t_exception>>
         ELSE \E due \in BOOLEAN :
                IF due /\ ~Accepts(ComputeMetricsParams, TrainerComputeMetricsKwargs)
                  THEN /\ t_exception' = "TypeError: compute_metrics() got an unexpected keyword argument"
                       /\ t_pc' = "raised"
                       /\ UNCHANGED t_evaluations
                  ELSE /\ t_evaluations' = t_evaluations \cup
                            {<<"compute_losses", t_training>>} \cup
                            (IF due THEN {<<"compute_metrics", t_training>>} ELSE {})
                       /\ t_pc' = "resume"
                       /\ UNCHANGED t_exception
    /\ UNCHANGED <<t_training, t_epoch, t_step, train_evaluator, t_returned>>
    /\ TFrame

\* line 135, and the loop moves on
TR_Resume ==
    /\ t_pc = "resume"
    /\ t_training' = Train(t_training)
    /\ t_epoch' = t_epoch + 1
    /\ t_pc' = "epoch"
    /\ UNCHANGED <<t_step, train_evaluator, t_evaluations, t_returned, t_exception>>
    /\ TFrame

\* lines 137-148
TR_Finish ==
    /\ t_pc = "epoch"
    /\ t_epoch >= t_epochs
    /\ t_training' = Eval(t_training)
    /\ t_returned' = TRUE
    /\ t_pc' = "returned"
    /\ UNCHANGED <<t_epoch, t_step, train_evaluator, t_evaluations, t_exception>>
    /\ TFrame

\* C19: the model is in training mode where an epoch starts and through
\* its training iterations, so that neither assert fails in any epoch; it
\* is in evaluation mode at the point of every epoch where the evaluator's
\* compute_metrics and compute_losses are run, and whenever one of them has
\* run; and it is in evaluation mode when __call__ has returned.
C19_TrainerModes ==
    /\ t_exception # "AssertionError"
    /\ t_pc \in {"epoch", "train_epoch"} => t_training
    /\ t_pc = "evaluate" => ~t_training
    /\ \A ev \in t_evaluations : ev[2] = FALSE
    /\ t_returned => ~t_training

\* C19's case: the second epoch has started and trained in training mode
\* after the switch to evaluation mode at the end of the first, and the
\* call has returned
C19_Witness ==
    /\ t_returned
    /\ t_epochs = 2
    /\ t_epoch = 2
    /\ t_step > 0
    /\ ~t_training

Init == MetricsInit /\ LossesIdle /\ RadixIdle /\ GenIdle /\ EntropyIdle
    /\ AamIdle
    /\ QzCxIdle
    /\ HzCvIdle
    /\ CallIdle
    /\ TrainerIdle

Next ==
    \/ CM_Start
    \/ DM_FitVAE
    \/ DM_FitPCA
    \/ DM_FitICA
    \/ DM_FitUnknown
    \/ DM_GenerateData
    \/ DM_CreateClassifier
    \/ DM_TrainEpoch
    \/ DM_Evaluate
    \/ DM_WeightReset
    \/ DM_Return
    \/ CM_LogAccuracies
    \/ CM_ComputeQzCx
    \/ CM_MarginalEntropy
    \/ CM_ConditionalEntropy
    \/ CM_Scores
    \/ CM_Finish

Spec == Init /\ [][Next]_vars

InitLosses == LossesInit /\ MetricsIdle /\ RadixIdle /\ GenIdle /\ EntropyIdle
    /\ AamIdle
    /\ QzCxIdle
    /\ HzCvIdle
    /\ CallIdle
    /\ TrainerIdle

NextLosses == CL_Iteration \/ CL_LoopEnd

SpecLosses == InitLosses /\ [][NextLosses]_vars

InitRadix == RadixInit /\ MetricsIdle /\ LossesIdle /\ GenIdle /\ EntropyIdle
    /\ AamIdle
    /\ QzCxIdle
    /\ HzCvIdle
    /\ CallIdle
    /\ TrainerIdle

NextRadix == R_Bases \/ R_Encode

SpecRadix == InitRadix /\ [][NextRadix]_vars

InitGen == GenInit /\ MetricsIdle /\ LossesIdle /\ RadixIdle /\ EntropyIdle
    /\ AamIdle
    /\ QzCxIdle
    /\ HzCvIdle
    /\ CallIdle
    /\ TrainerIdle

NextGen == IG_ChooseFactor \/ IG_SampleFactor \/ IG_Gather

SpecGen == InitGen /\ [][NextGen]_vars

InitEntropy == EntropyInit /\ MetricsIdle /\ LossesIdle /\ RadixIdle /\ GenIdle
    /\ AamIdle
    /\ QzCxIdle
    /\ HzCvIdle
    /\ CallIdle
    /\ TrainerIdle

NextEntropy == E_SelectPivots \/ E_View \/ E_MiniBatch \/ E_Finish

SpecEntropy == InitEntropy /\ [][NextEntropy]_vars
(***************************************************************************)
(* Specification of _axis_aligned_metric on the table of compute_metrics.  *)
(***************************************************************************)
InitAam == AamInit /\ MetricsIdle /\ LossesIdle /\ RadixIdle /\ GenIdle
    /\ EntropyIdle
    /\ QzCxIdle
    /\ HzCvIdle
    /\ CallIdle
    /\ TrainerIdle

NextAam ==
    \/ AAM_SortClamp
    \/ AAM_Numerator
    \/ AAM_Divide
    \/ AAM_NanToZero
    \/ AAM_Mean

SpecAam == InitAam /\ [][NextAam]_vars

(***************************************************************************)
(* Specification of _compute_q_zCx on one loader.                          *)
(***************************************************************************)
InitQzCx == QzCxInit /\ MetricsIdle /\ LossesIdle /\ RadixIdle /\ GenIdle
    /\ EntropyIdle
    /\ AamIdle
    /\ HzCvIdle
    /\ CallIdle
    /\ TrainerIdle

NextQzCx ==
    \/ Q_Batch
    \/ Q_Return

SpecQzCx == InitQzCx /\ [][NextQzCx]_vars

(***************************************************************************)
(* Specification of _estimate_H_zCv on one dense dataset.                  *)
(***************************************************************************)
InitHzCv == HzCvInit /\ MetricsIdle /\ LossesIdle /\ RadixIdle /\ GenIdle
    /\ EntropyIdle
    /\ AamIdle
    /\ QzCxIdle
    /\ CallIdle
    /\ TrainerIdle

NextHzCv ==
    \/ H_Slice
    \/ H_Estimate
    \/ H_Return

SpecHzCv == InitHzCv /\ [][NextHzCv]_vars

(***************************************************************************)
(* Specification of one call of Evaluator.__call__.                        *)
(***************************************************************************)
InitCall == CallInit /\ MetricsIdle /\ LossesIdle /\ RadixIdle /\ GenIdle
    /\ EntropyIdle
    /\ AamIdle
    /\ QzCxIdle
    /\ HzCvIdle
    /\ TrainerIdle

NextCall ==
    \/ EV_Enter
    \/ EV_Metrics
    \/ EV_Losses
    \/ EV_Restore
    \/ EV_Return

SpecCall == InitCall /\ [][NextCall]_vars

(***************************************************************************)
(* Specification of one call of Trainer.__call__.                          *)
(***************************************************************************)
InitTrainer == TrainerInit /\ MetricsIdle /\ LossesIdle /\ RadixIdle /\ GenIdle
    /\ EntropyIdle
    /\ AamIdle
    /\ QzCxIdle
    /\ HzCvIdle
    /\ CallIdle

NextTrainer ==
    \/ TR_Start
    \/ TR_EpochStart
    \/ TR_TrainIteration
    \/ TR_EpochEnd
    \/ TR_Evaluate
    \/ TR_Resume
    \/ TR_Finish

SpecTrainer == InitTrainer /\ [][NextTrainer]_vars

====
